---- MODULE Spec2Model ----
(***************************************************************************)
(* Model of the WebRTC signaling server (signalingServer.js, class         *)
(* SignalingServer): the socket.io connection handler and the event        *)
(* handlers registered in setupEventHandlers -- join-room, offer, answer,  *)
(* ice-candidate, code-change and disconnect -- together with the two      *)
(* records of membership they use: the transport's rooms (socket.join /    *)
(* socket.to) and the tracked map this.rooms.                              *)
(***************************************************************************)
EXTENDS Bags, FiniteSets, Integers, Sequences, TLC

(* ---------------------------- bounds ----------------------------------- *)

\* total number of entries the tracked map may hold (caps join-room events)
MaxEntries == 3

\* socket ids, in the order the server admits them
ConnOrder == <<"A", "B", "C">>
ConnIds == {ConnOrder[i] : i \in 1..Len(ConnOrder)}

\* room identifiers clients use for interviews
RoomNames == {"r1"}

\* roomId and targetSocketId are strings the client chooses, and socket.io
\* keeps rooms and socket ids in one namespace: a key is a room name or a
\* socket id (clients learn socket ids from user-joined)
RoomKeys == RoomNames \cup ConnIds

\* the keys clients name in join-room: the interview room and the id of the
\* first socket (a live socket's id while it is connected, an ordinary
\* second room name once it is gone)
JoinKeys == RoomNames \cup {ConnOrder[1]}

\* the userId each client sends in its join-room events
UserOf == [c \in ConnIds |-> IF c = "A" THEN "u1" ELSE IF c = "B" THEN "u2" ELSE "u3"]
UserIds == {UserOf[c] : c \in ConnIds}

\* what a client puts in a directed event besides the target: the opaque
\* payload, and a senderSocketId field of its own choosing
ClientData == {[payload |-> "p1", senderSocketId |-> ConnOrder[1]],
               [payload |-> "p2", senderSocketId |-> ConnOrder[2]]}
Payloads == {x.payload : x \in ClientData}

\* placeholder for a field an event does not carry
NoVal == "-"

\* the value a destructured field has when the client's object lacks it, and
\* the key socket.join / Map.set / socket.to then work with
Undefined == "undefined"

\* every key the transport rooms and this.rooms can hold
AllKeys == RoomKeys \cup {Undefined}

VARIABLES
  status,    \* socket id -> "idle" | "connected" | "closed" | "down"
  adapter,   \* transport rooms: key -> set of socket ids (socket.join)
  rooms,     \* this.rooms: Map key -> Set of {socketId, userId} objects
  joined,    \* history: key -> live sockets that sent join-room for it
  lastOp,    \* the event the last handler run processed
  out,       \* bag of deliveries made by the last handler run
  up,        \* socket id -> events the client emitted, not yet handled
  inbox,     \* socket id -> events delivered to the client, not yet handled
  sentLog,   \* history: socket id -> the directed events its client emitted
  recvLog    \* history: receiver -> sender -> events its listeners took

\* the state of the clients and of the connections between them and the relay
client == <<up, inbox, sentLog, recvLog>>

vars == <<status, adapter, rooms, joined, lastOp, out, up, inbox, sentLog,
          recvLog>>

(* ---------------------------- helpers ---------------------------------- *)

RECURSIVE BagSum(_)
\* sum of a finite set of bags
BagSum(S) ==
  IF S = {} THEN EmptyBag
  ELSE LET b == CHOOSE x \in S : TRUE IN b (+) BagSum(S \ {b})

RECURSIVE SumLen(_, _)
\* total number of entries stored in the tracked map m over keys K
SumLen(m, K) ==
  IF K = {} THEN 0
  ELSE LET k == CHOOSE x \in K : TRUE IN Len(m[k]) + SumLen(m, K \ {k})

TotalEntries == SumLen(rooms, DOMAIN rooms)

\* an outbound event as the handlers build it
Msg(ev, userId, socketId, payload, senderSocketId) ==
  [ev |-> ev, userId |-> userId, socketId |-> socketId,
   payload |-> payload, senderSocketId |-> senderSocketId]

\* one delivery of msg to socket t, emitted by socket s through to(key)
Delivery(t, s, key, msg) ==
  [to |-> t, from |-> s, via |-> key, msg |-> msg]

\* socket.to(key).emit(msg) called on socket s: every socket currently in
\* the transport room key, except s itself, gets msg once
Broadcast(ad, s, key, msg) ==
  SetToBag({Delivery(t, s, key, msg) : t \in ad[key] \ {s}})

\* number of deliveries in bag b satisfying P
Count(b, P(_)) ==
  BagCardinality([d \in {x \in BagToSet(b) : P(x)} |-> b[d]])

\* Array.from(users).find(user => user.socketId === id): index of the first
\* entry of users with that socket id, 0 when there is none
FindIndex(users, id) ==
  IF \E i \in 1..Len(users) : users[i].socketId = id
  THEN CHOOSE i \in 1..Len(users) :
         /\ users[i].socketId = id
         /\ \A j \in 1..(i-1) : users[j].socketId # id
  ELSE 0

\* users.delete(userToRemove): the Set without the object at index i
DeleteAt(users, i) ==
  SubSeq(users, 1, i-1) \o SubSeq(users, i+1, Len(users))

\* the record kept of the event a handler run processed
Op(kind, sock, key, userId, payload, forged, left) ==
  [kind |-> kind, sock |-> sock, key |-> key, userId |-> userId,
   payload |-> payload, forged |-> forged, left |-> left]

(* ---------------------------- initial state ---------------------------- *)

Init ==
  /\ status = [c \in ConnIds |-> "idle"]
  /\ adapter = [k \in AllKeys |-> {}]
  /\ rooms = << >>
  /\ joined = [k \in AllKeys |-> {}]
  /\ lastOp = Op("init", NoVal, NoVal, NoVal, NoVal, NoVal, {})
  /\ out = EmptyBag
  /\ up = [c \in ConnIds |-> << >>]
  /\ inbox = [c \in ConnIds |-> << >>]
  /\ sentLog = [c \in ConnIds |-> << >>]
  /\ recvLog = [c \in ConnIds |-> [x \in ConnIds |-> << >>]]

(* ---------------------------- handlers --------------------------------- *)

\* io.on("connection"): the server admits the next socket; socket.io puts
\* every socket in the transport room named by its own id
Connect ==
  \E i \in 1..Len(ConnOrder) :
    LET c == ConnOrder[i] IN
    /\ status[c] = "idle"
    /\ \A j \in 1..(i-1) : status[ConnOrder[j]] # "idle"
    /\ status' = [status EXCEPT ![c] = "connected"]
    /\ adapter' = [adapter EXCEPT ![c] = @ \cup {c}]
    /\ lastOp' = Op("connection", c, NoVal, NoVal, NoVal, NoVal, {})
    /\ out' = EmptyBag
    /\ UNCHANGED <<rooms, joined>>
    /\ UNCHANGED client

\* variant of AddUserToRoom: this.rooms.set(roomId, new Set()) runs without
\* the has check, so a join starts the room's set afresh
AddUserToRoomReset(m, roomId, c, userId) ==
  [k \in (DOMAIN m) \cup {roomId} |->
     IF k = roomId THEN <<[socketId |-> c, userId |-> userId]>> ELSE m[k]]

\* this.rooms after the join-room handler's has/set/get/add
AddUserToRoom(m, roomId, c, userId) ==
  LET users == IF roomId \in DOMAIN m THEN m[roomId] ELSE << >>
  IN [k \in (DOMAIN m) \cup {roomId} |->
        IF k = roomId THEN Append(users, [socketId |-> c, userId |-> userId])
        ELSE m[k]]

\* variant of JoinNotify: the event is built without the joiner's socket id
JoinNotifyNoSocketId(ad, c, roomId, userId) ==
  Broadcast(ad, c, roomId, Msg("user-joined", userId, NoVal, NoVal, NoVal))

\* variant of JoinNotify: io.to(roomId).emit, which does not leave the
\* joining socket out
JoinNotifyAll(ad, c, roomId, userId) ==
  SetToBag({Delivery(t, c, roomId,
                     Msg("user-joined", userId, c, NoVal, NoVal)) :
            t \in ad[roomId]})

\* variant of JoinNotify: the event goes to one socket of the room only
\* (socket.to(<one member's id>) in place of socket.to(roomId))
JoinNotifyOneMember(ad, c, roomId, userId) ==
  LET others == ad[roomId] \ {c}
  IN IF others = {} THEN EmptyBag
     ELSE SetToBag({Delivery(CHOOSE t \in others : TRUE, c, roomId,
                             Msg("user-joined", userId, c, NoVal, NoVal))})

\* socket.to(roomId).emit("user-joined", { userId, socketId: socket.id })
JoinNotify(ad, c, roomId, userId) ==
  Broadcast(ad, c, roomId, Msg("user-joined", userId, c, NoVal, NoVal))

\* the join-room handler run on socket c for the destructured roomId, userId
JoinRoomOn(c, roomId, userId) ==
  /\ status[c] = "connected"
  /\ TotalEntries < MaxEntries
  /\ adapter' = [adapter EXCEPT ![roomId] = @ \cup {c}]
  /\ rooms' = AddUserToRoom(rooms, roomId, c, userId)
  /\ joined' = [joined EXCEPT ![roomId] = @ \cup {c}]
  /\ out' = JoinNotify(adapter', c, roomId, userId)
  /\ lastOp' = Op("join-room", c, roomId, userId, NoVal, NoVal, {})
  /\ UNCHANGED status

\* socket.on("join-room", ({ roomId, userId }) => ...)
JoinRoom ==
  \E c \in ConnIds, roomId \in JoinKeys :
    JoinRoomOn(c, roomId, UserOf[c]) /\ UNCHANGED client

\* the disconnect handler's forEach body for one room: the tracked users of
\* roomId after removing the first entry whose socketId is c (unchanged when
\* find returns undefined)
UsersAfterLeave(users, c) ==
  LET i == FindIndex(users, c)
  IN IF i = 0 THEN users ELSE DeleteAt(users, i)

\* variant of RoomsAfterDisconnect: the size check and this.rooms.delete are
\* left out
RoomsAfterDisconnectNoDelete(m, c) ==
  [k \in DOMAIN m |-> UsersAfterLeave(m[k], c)]

\* variant of RoomsAfterDisconnect: this.rooms.delete(roomId) runs whenever
\* the departing socket was found, without the size check
RoomsAfterDisconnectDropRoom(m, c) ==
  [k \in {r \in DOMAIN m : FindIndex(m[r], c) = 0} |-> m[k]]

\* this.rooms after the disconnect handler: one entry of c removed from every
\* room that has one, rooms left with size 0 deleted
RoomsAfterDisconnect(m, c) ==
  LET keep == {k \in DOMAIN m : Len(UsersAfterLeave(m[k], c)) # 0}
  IN [k \in keep |-> UsersAfterLeave(m[k], c)]

\* the rooms in which the disconnect handler's find returns an entry of c
RoomsOf(m, c) == {r \in DOMAIN m : FindIndex(m[r], c) # 0}

\* variant of UserLeftEmits: the event carries socket.id where the handler
\* passes userToRemove.userId
UserLeftEmitsSocketId(m, ad, c) ==
  BagSum({Broadcast(ad, c, k, Msg("user-left", c, NoVal, NoVal, NoVal)) :
          k \in RoomsOf(m, c)})

\* variant of UserLeftEmits: the emit is not under if (userToRemove), so
\* every room of this.rooms gets a user-left
UserLeftEmitsEveryRoom(m, ad, c) ==
  BagSum({Broadcast(ad, c, k,
                    Msg("user-left",
                        IF FindIndex(m[k], c) # 0
                        THEN m[k][FindIndex(m[k], c)].userId ELSE Undefined,
                        NoVal, NoVal, NoVal)) :
          k \in DOMAIN m})

\* the user-left emissions of the disconnect handler: one socket.to(roomId)
\* per room in which find returned an entry, carrying that entry's userId
UserLeftEmits(m, ad, c) ==
  BagSum({Broadcast(ad, c, k,
                    Msg("user-left", m[k][FindIndex(m[k], c)].userId,
                        NoVal, NoVal, NoVal)) :
          k \in RoomsOf(m, c)})

\* variant of Disconnect: the cleanup runs, but the socket stays in the
\* transport rooms it was in
DisconnectStaysInRooms ==
  \E c \in ConnIds :
    /\ status[c] = "connected"
    /\ status' = [status EXCEPT ![c] = "closed"]
    /\ rooms' = RoomsAfterDisconnect(rooms, c)
    /\ joined' = [k \in AllKeys |-> joined[k] \ {c}]
    /\ out' = UserLeftEmits(rooms, adapter, c)
    /\ lastOp' = Op("disconnect", c, NoVal, NoVal, NoVal, NoVal,
                  RoomsOf(rooms, c))
    /\ UNCHANGED adapter
    /\ UNCHANGED client

\* the disconnect handler run for socket c: socket.io has already taken
\* the socket out of every transport room when the handler runs
DisconnectOn(c) ==
  /\ status[c] = "connected"
  /\ status' = [status EXCEPT ![c] = "closed"]
  /\ adapter' = [k \in AllKeys |-> adapter[k] \ {c}]
  /\ rooms' = RoomsAfterDisconnect(rooms, c)
  /\ joined' = [k \in AllKeys |-> joined[k] \ {c}]
  /\ out' = UserLeftEmits(rooms, adapter', c)
  /\ lastOp' = Op("disconnect", c, NoVal, NoVal, NoVal, NoVal,
                RoomsOf(rooms, c))

\* socket.on("disconnect", () => ...)
Disconnect ==
  \E c \in ConnIds : DisconnectOn(c) /\ UNCHANGED client

\* variant of Relayed: { senderSocketId: socket.id, ...data }, where a
\* senderSocketId field of the client's object wins
RelayedSpread(kind, c, data) ==
  Msg(kind, NoVal, NoVal, data.payload, data.senderSocketId)

\* variant of Relayed: the emitted object carries senderSocketId only, the
\* client's offer / answer / candidate is left out
RelayedNoPayload(kind, c, data) ==
  Msg(kind, NoVal, NoVal, NoVal, c)

\* the relayed event of a directed handler: the payload the client sent and
\* senderSocketId: socket.id; every other field of the client's object
\* (roomId, a senderSocketId of its own) is dropped by the destructuring
Relayed(kind, c, data) ==
  Msg(kind, NoVal, NoVal, data.payload, c)

\* the body shared by the offer, answer and ice-candidate handlers, run on
\* socket c for the client's object data:
\* socket.to(targetSocketId).emit(kind, { <payload>, senderSocketId })
DirectedOn(kind, c, data) ==
  /\ status[c] = "connected"
  /\ out' = Broadcast(adapter, c, data.targetSocketId,
                      Relayed(kind, c, data))
  /\ lastOp' = Op(kind, c, data.targetSocketId, NoVal, data.payload,
                  data.senderSocketId, {})
  /\ UNCHANGED <<status, adapter, rooms, joined>>

\* an offer, answer or ice-candidate event with all its fields
Directed(kind) ==
  \E c \in ConnIds, target \in RoomKeys, x \in ClientData :
    /\ DirectedOn(kind, c, [payload |-> x.payload,
                            targetSocketId |-> target,
                            senderSocketId |-> x.senderSocketId])
    /\ UNCHANGED client

\* socket.on("offer", ({ offer, roomId, targetSocketId }) => ...)
Offer == Directed("offer")

\* socket.on("answer", ({ answer, roomId, targetSocketId }) => ...)
Answer == Directed("answer")

\* socket.on("ice-candidate", ({ candidate, roomId, targetSocketId }) => ...)
IceCandidate == Directed("ice-candidate")

\* the code-change handler run on socket c for the destructured roomId, code
CodeChangeOn(c, roomId, p) ==
  /\ status[c] = "connected"
  /\ out' = Broadcast(adapter, c, roomId,
                      Msg("code-change", NoVal, NoVal, p, NoVal))
  /\ lastOp' = Op("code-change", c, roomId, NoVal, p, NoVal, {})
  /\ UNCHANGED <<status, adapter, rooms, joined>>

\* socket.on("code-change", ({ roomId, code, language }) => ...)
CodeChange ==
  \E c \in ConnIds, roomId \in RoomKeys, p \in Payloads :
    CodeChangeOn(c, roomId, p) /\ UNCHANGED client

Next ==
  \/ Connect
  \/ JoinRoom
  \/ Offer
  \/ Answer
  \/ IceCandidate
  \/ CodeChange
  \/ Disconnect

Spec == Init /\ [][Next]_vars

(* ------------------ events that lack a field or the object -------------- *)

\* the events whose handlers destructure their argument
EventKinds == {"join-room", "offer", "answer", "ice-candidate", "code-change"}

\* a join-room event whose object has no roomId
JoinRoomNoRoomId ==
  \E c \in ConnIds : JoinRoomOn(c, Undefined, UserOf[c]) /\ UNCHANGED client

\* an offer, answer or ice-candidate event whose object has no targetSocketId
DirectedNoTarget(kind) ==
  \E c \in ConnIds, x \in ClientData :
    /\ DirectedOn(kind, c, [payload |-> x.payload,
                            targetSocketId |-> Undefined,
                            senderSocketId |-> x.senderSocketId])
    /\ UNCHANGED client

OfferNoTarget == DirectedNoTarget("offer")

AnswerNoTarget == DirectedNoTarget("answer")

IceCandidateNoTarget == DirectedNoTarget("ice-candidate")

\* a code-change event whose object has no roomId
CodeChangeNoRoomId ==
  \E c \in ConnIds, p \in Payloads :
    CodeChangeOn(c, Undefined, p) /\ UNCHANGED client

\* an event emitted with no object at all: destructuring undefined in the
\* handler's parameter list throws a TypeError that nothing catches, and the
\* process exits with every socket and the whole of this.rooms
EventNoObject ==
  \E c \in ConnIds, kind \in EventKinds :
    /\ status[c] = "connected"
    /\ status' = [x \in ConnIds |-> "down"]
    /\ adapter' = [k \in AllKeys |-> {}]
    /\ rooms' = << >>
    /\ joined' = [k \in AllKeys |-> {}]
    /\ out' = EmptyBag
    /\ lastOp' = Op(kind, c, NoVal, NoVal, Undefined, NoVal, {})
    /\ UNCHANGED client

NextMalformed ==
  \/ Connect
  \/ JoinRoom
  \/ Disconnect
  \/ JoinRoomNoRoomId
  \/ OfferNoTarget
  \/ AnswerNoTarget
  \/ IceCandidateNoTarget
  \/ CodeChangeNoRoomId
  \/ EventNoObject

\* the relay fed with well-formed joins and with events that lack a field
\* or the object
SpecMalformed == Init /\ [][NextMalformed]_vars

(* ------------- clients that follow the documented handlers ------------- *)

RECURSIVE BagToSeq(_)
\* the deliveries of bag b one after the other (each as often as b holds it)
BagToSeq(b) ==
  IF BagToSet(b) = {} THEN << >>
  ELSE LET d == CHOOSE x \in BagToSet(b) : TRUE
       IN <<d>> \o BagToSeq(b (-) SetToBag({d}))

\* the events of the deliveries in ds that are addressed to socket t
EventsFor(ds, t) ==
  LET mine == SelectSeq(ds, LAMBDA d : d.to = t)
  IN [i \in 1..Len(mine) |-> mine[i].msg]

\* the connections to the clients after a handler run emitted the bag b:
\* each emitted event is written to its receiver's connection, behind the
\* events written before
Enqueue(inb, b) ==
  [t \in ConnIds |-> inb[t] \o EventsFor(BagToSeq(b), t)]

\* number of join-room events emitted and not yet handled
PendingJoins ==
  LET n == [c \in ConnIds |->
              Len(SelectSeq(up[c], LAMBDA e : e.kind = "join-room"))]
  IN SumLen([c \in ConnIds |-> [i \in 1..n[c] |-> i]], ConnIds)

\* socket.emit("join-room", { roomId, userId }) in the client of socket c
ClientJoin ==
  \E c \in ConnIds, roomId \in RoomNames :
    /\ status[c] = "connected"
    /\ TotalEntries + PendingJoins < MaxEntries
    /\ up' = [up EXCEPT ![c] = Append(@, [kind |-> "join-room",
                                           key |-> roomId,
                                           payload |-> NoVal])]
    /\ UNCHANGED <<status, adapter, rooms, joined, lastOp, out, inbox,
                   sentLog, recvLog>>

\* socket.emit(kind, { <description>, roomId, targetSocketId }) in the client
\* of socket c: the description is the n-th the client made, written "n"
EmitDirected(c, kind, target) ==
  LET n == ToString(Len(sentLog[c]) + 1)
  IN /\ up' = [up EXCEPT ![c] = Append(@, [kind |-> kind, key |-> target,
                                           payload |-> n])]
     /\ sentLog' = [sentLog EXCEPT ![c] = Append(@, [kind |-> kind,
                                                     target |-> target,
                                                     payload |-> n])]

\* variant of HandleNext: the relay takes the newest event of the connection
\* (the last of up[c]) where it takes the oldest
HandleNewest(c) ==
  [e |-> up[c][Len(up[c])], rest |-> SubSeq(up[c], 1, Len(up[c]) - 1)]

\* the event of socket c the relay handles next and the ones left behind it:
\* the events of one connection reach their listeners in the order the client
\* emitted them
HandleNext(c) ==
  [e |-> Head(up[c]), rest |-> Tail(up[c])]

\* the relay handles the next event of socket c with the listener registered
\* for it, and what the listener emits goes out to the receivers
ServerHandle(c) ==
  /\ status[c] = "connected"
  /\ up[c] # << >>
  /\ LET e == HandleNext(c).e
     IN IF e.kind = "join-room"
        THEN JoinRoomOn(c, e.key, UserOf[c])
        ELSE DirectedOn(e.kind, c, [payload |-> e.payload,
                                    targetSocketId |-> e.key,
                                    senderSocketId |-> NoVal])
  /\ up' = [up EXCEPT ![c] = HandleNext(c).rest]
  /\ inbox' = Enqueue(inbox, out')
  /\ UNCHANGED <<sentLog, recvLog>>

\* variant of OnUserJoined: the client that learns of a joiner waits for the
\* joiner's offer and sends none itself
OnUserJoinedWaits(c, ev) ==
  UNCHANGED <<up, sentLog, recvLog>>

\* socket.on('user-joined', async ({ userId, socketId }) => ...): create an
\* offer and send it to the joiner's socket id
OnUserJoined(c, ev) ==
  /\ EmitDirected(c, "offer", ev.socketId)
  /\ UNCHANGED recvLog

\* socket.on('offer', async ({ offer, senderSocketId }) => ...): take the
\* offer, create an answer and send it to senderSocketId
OnOffer(c, ev) ==
  /\ recvLog' = [recvLog EXCEPT ![c][ev.senderSocketId] =
                   Append(@, [kind |-> ev.ev, payload |-> ev.payload])]
  /\ EmitDirected(c, "answer", ev.senderSocketId)

\* socket.on('answer', async ({ answer }) => ...): take the answer
OnAnswer(c, ev) ==
  /\ recvLog' = [recvLog EXCEPT ![c][ev.senderSocketId] =
                   Append(@, [kind |-> ev.ev, payload |-> ev.payload])]
  /\ UNCHANGED <<up, sentLog>>

\* the client of socket c takes the next event from its connection and runs
\* the listener it registered for it (none for user-left)
ClientReceive(c) ==
  /\ status[c] = "connected"
  /\ inbox[c] # << >>
  /\ inbox' = [inbox EXCEPT ![c] = Tail(@)]
  /\ LET ev == Head(inbox[c])
     IN CASE ev.ev = "user-joined" -> OnUserJoined(c, ev)
          [] ev.ev = "offer" -> OnOffer(c, ev)
          [] ev.ev = "answer" -> OnAnswer(c, ev)
          [] OTHER -> UNCHANGED <<up, sentLog, recvLog>>
  /\ UNCHANGED <<status, adapter, rooms, joined, lastOp, out>>

ServerHandles == \E c \in ConnIds : ServerHandle(c)

ClientReceives == \E c \in ConnIds : ClientReceive(c)

NextHandshake ==
  \/ Connect
  \/ ClientJoin
  \/ ServerHandles
  \/ ClientReceives

\* the event loops of the relay and of the clients do not stop while an
\* event is waiting
FairHandshake ==
  /\ WF_vars(ServerHandles)
  /\ WF_vars(ClientReceives)

\* the relay with clients that join the interview room, run the documented
\* handlers and stay connected
SpecHandshake == Init /\ [][NextHandshake]_vars /\ FairHandshake

(* ------------------ the frontend's WebRTCComponent --------------------- *)

\* the sockets opened by a mounted WebRTCComponent; the other socket belongs
\* to a client that sends the events the relay listens for
Frontends == {ConnOrder[1], ConnOrder[2]}

\* socketInstance.emit("join", roomId), sent when the socket connects: the
\* relay registers no listener for "join", so no handler runs
FrontendJoin ==
  \E c \in Frontends, roomId \in RoomNames :
    /\ status[c] = "connected"
    /\ sentLog[c] = << >>
    /\ sentLog' = [sentLog EXCEPT ![c] = <<[kind |-> "join",
                                            target |-> roomId,
                                            payload |-> NoVal]>>]
    /\ lastOp' = Op("join", c, roomId, NoVal, NoVal, NoVal, {})
    /\ out' = EmptyBag
    /\ UNCHANGED <<status, adapter, rooms, joined, up, inbox, recvLog>>

\* the component has emitted an event of that kind on socket c
Emitted(c, kind) ==
  \E n \in 1..Len(sentLog[c]) : sentLog[c][n].kind = kind

\* what the relay's directed listeners destructure from an object of the
\* component, { sdp | candidate, target }: payload is the field the listener
\* names (offer and answer are absent, candidate is there), and
\* targetSocketId is absent
FrontendData(kind) ==
  [payload |-> IF kind = "ice-candidate" THEN "p1" ELSE Undefined,
   targetSocketId |-> Undefined,
   senderSocketId |-> NoVal]

\* the timer's socketRef.current.emit("offer", { sdp: offer, target: roomId }),
\* two seconds after the mount, handled by the relay's offer listener
FrontendOffer ==
  \E c \in Frontends :
    /\ Emitted(c, "join")
    /\ ~Emitted(c, "offer")
    /\ DirectedOn("offer", c, FrontendData("offer"))
    /\ sentLog' = [sentLog EXCEPT ![c] = Append(@, [kind |-> "offer",
                                                    target |-> "r1",
                                                    payload |-> NoVal])]
    /\ UNCHANGED <<up, inbox, recvLog>>

\* pc.onicecandidate: emit("ice-candidate", { candidate, target: roomId }),
\* once the offer has set the local description, handled by the relay's
\* ice-candidate listener
FrontendIceCandidate ==
  \E c \in Frontends :
    /\ Emitted(c, "offer")
    /\ DirectedOn("ice-candidate", c, FrontendData("ice-candidate"))
    /\ UNCHANGED client

\* socketInstance.on("offer", ...): emit("answer", { sdp: answer, target:
\* data.caller }) after an offer was delivered to the socket, handled by the
\* relay's answer listener. The delivered object has no sdp field; whether
\* the browser's setRemoteDescription accepts that and the listener gets as
\* far as the emit is left open (the step may or may not be taken)
FrontendAnswer ==
  \E c \in Frontends :
    /\ \E d \in BagToSet(out) : d.to = c /\ d.msg.ev = "offer"
    /\ DirectedOn("answer", c, FrontendData("answer"))
    /\ UNCHANGED client

\* the other client's join-room
PeerJoinRoom ==
  \E c \in ConnIds \ Frontends, roomId \in RoomNames :
    JoinRoomOn(c, roomId, UserOf[c]) /\ UNCHANGED client

\* the other client's offer to a socket id or to the interview room
PeerOffer ==
  \E c \in ConnIds \ Frontends, target \in Frontends \cup RoomNames,
     x \in ClientData :
    /\ DirectedOn("offer", c, [payload |-> x.payload,
                               targetSocketId |-> target,
                               senderSocketId |-> x.senderSocketId])
    /\ UNCHANGED client

NextFrontend ==
  \/ Connect
  \/ FrontendJoin
  \/ FrontendOffer
  \/ FrontendIceCandidate
  \/ FrontendAnswer
  \/ PeerJoinRoom
  \/ PeerOffer
  \/ Disconnect

\* the relay with two mounted WebRTCComponents and one client of the relay's
\* own protocol
SpecFrontend == Init /\ [][NextFrontend]_vars

(* ---------------------------- properties ------------------------------- *)

DirectedKinds == {"offer", "answer", "ice-candidate"}

\* the deliveries of the last handler run
Sent == BagToSet(out)

\* how many times the last handler run delivered something matching P to t
Received(t, P(_)) == Count(out, LAMBDA d : d.to = t /\ P(d))

\* the socket ids listed for room r in this.rooms
TrackedIds(r) ==
  IF r \in DOMAIN rooms
  THEN {rooms[r][i].socketId : i \in 1..Len(rooms[r])}
  ELSE {}

\* users.size for room r (0 when the map has no entry)
TrackedCount(r) == IF r \in DOMAIN rooms THEN Len(rooms[r]) ELSE 0

\* C1: for every room, the member set the relay tracks is exactly the set of
\* live connections that sent join-room for it, and the tracked count is the
\* number of those connections (no phantom member, no missing member)
C1_TrackedIsJoined ==
  \A r \in RoomKeys :
    /\ TrackedIds(r) = joined[r]
    /\ TrackedCount(r) = Cardinality(joined[r])

\* C2: once the disconnect handler has run for a connection, no room of the
\* directory lists that connection, whatever it joined before
C2_ClosedInNoRoom ==
  \A c \in ConnIds :
    status[c] = "closed" => \A r \in RoomKeys : c \notin TrackedIds(r)

\* C3: when a connection joins room r, every other member of r receives
\* exactly one user-joined event, and that event carries the joiner's userId
\* and the joiner's socket id
C3_MembersNotifiedOnce ==
  lastOp.kind = "join-room" =>
    \A m \in joined[lastOp.key] \ {lastOp.sock} :
      /\ Received(m, LAMBDA d : d.msg.ev = "user-joined") = 1
      /\ Received(m, LAMBDA d :
           d.msg = Msg("user-joined", lastOp.userId, lastOp.sock,
                       NoVal, NoVal)) = 1

\* C3 witness: the third socket has joined a room in which two others were
\* members, and both were notified
C3_Witness ==
  /\ lastOp.kind = "join-room"
  /\ Cardinality(joined[lastOp.key] \ {lastOp.sock}) = 2
  /\ BagCardinality(out) = 2

C5_DirectedOnlyToTarget ==
  lastOp.kind \in DirectedKinds =>
    \A d \in Sent : d.to = lastOp.key

\* C6: a code-change sent by a member of room r naming r is received exactly
\* once by every other member of r and by no other connection, the sender
\* included
C6_CodeChangeToOtherMembers ==
  (lastOp.kind = "code-change" /\ lastOp.sock \in joined[lastOp.key]) =>
    /\ {d.to : d \in Sent} = joined[lastOp.key] \ {lastOp.sock}
    /\ \A m \in joined[lastOp.key] \ {lastOp.sock} :
         Received(m, LAMBDA d : d.msg.ev = "code-change") = 1

\* C7: when a connection disconnects, in each room it belonged to every
\* remaining member receives exactly one user-left, carrying the userId the
\* connection supplied when joining, and the connection itself receives
\* nothing
C7_UserLeftOncePerRoom ==
  lastOp.kind = "disconnect" =>
    /\ \A r \in lastOp.left : \A m \in joined[r] :
         /\ Received(m, LAMBDA d : d.via = r /\ d.msg.ev = "user-left") = 1
         /\ Received(m, LAMBDA d :
              /\ d.via = r
              /\ d.msg = Msg("user-left", UserOf[lastOp.sock],
                             NoVal, NoVal, NoVal)) = 1
    /\ \A d \in Sent : d.to # lastOp.sock

\* C7 witness: the departing socket was in two rooms, and a member that
\* stays in one of them got its user-left
C7_Witness ==
  /\ lastOp.kind = "disconnect"
  /\ Cardinality(lastOp.left) = 2
  /\ \E r \in lastOp.left : \E m \in joined[r] :
       Received(m, LAMBDA d : d.via = r /\ d.msg.ev = "user-left") = 1

\* C8: a relayed offer, answer or ice-candidate is delivered at most once to
\* its target, and its senderSocketId is the id of the socket that sent it,
\* whatever senderSocketId the client's own object carried
C8_SenderIdFromRelay ==
  lastOp.kind \in DirectedKinds =>
    /\ Received(lastOp.key, LAMBDA d : TRUE) <= 1
    /\ \A d \in Sent :
         /\ out[d] = 1
         /\ d.msg.senderSocketId = lastOp.sock
         /\ d.from = lastOp.sock

\* C8 witness: an offer whose client object named another socket as sender
\* has been delivered to its target
C8_Witness ==
  /\ lastOp.kind = "offer"
  /\ lastOp.forged # lastOp.sock
  /\ lastOp.key \in ConnIds
  /\ lastOp.forged # lastOp.key
  /\ Received(lastOp.key, LAMBDA d : d.msg.ev = "offer") = 1

\* C9: no room present in the directory has an empty member set
C9_NoEmptyRoom ==
  \A r \in DOMAIN rooms : Len(rooms[r]) > 0

\* C9 witness: a disconnect has removed the last member of a room, and the
\* room is gone with it
C9_Witness ==
  /\ lastOp.kind = "disconnect"
  /\ \E r \in lastOp.left : r \notin DOMAIN rooms

\* the state right after the disconnect of A has been processed, when A and
\* B had joined r1 and B stays connected
AfterALeftR1 ==
  /\ lastOp.kind = "disconnect"
  /\ lastOp.sock = "A"
  /\ "r1" \in lastOp.left
  /\ joined["r1"] = {"B"}

\* C10 (as claimed): after A and B joined r1 and A disconnected, r1 is no
\* longer in the directory
C10_RoomGoneAfterALeft ==
  AfterALeftR1 => "r1" \notin DOMAIN rooms

\* C10 (amended): after A and B joined r1 and A disconnected, r1 is still in
\* the directory and still lists B
C10_RoomKeptForB ==
  AfterALeftR1 => ("r1" \in DOMAIN rooms /\ "B" \in TrackedIds("r1"))

\* C10 witness: A has disconnected from r1 and the room lists exactly B
C10_Witness ==
  /\ AfterALeftR1
  /\ TrackedIds("r1") = {"B"}
  /\ TrackedCount("r1") = 1

\* C11: once every connection that joined room r has disconnected (no live
\* connection that sent join-room for r is left), r is absent from the
\* directory
C11_RoomGoneWhenAllLeft ==
  \A r \in RoomKeys : joined[r] = {} => r \notin DOMAIN rooms

\* C12: an offer, answer or ice-candidate is delivered only when its sender
\* is a member of some room and the receiver is a member of that same room
C12_DirectedNeedsSharedRoom ==
  lastOp.kind \in DirectedKinds =>
    \A d \in Sent :
      \E r \in RoomKeys : lastOp.sock \in joined[r] /\ d.to \in joined[r]

\* C13: a code-change naming room r sent by a connection that is not a
\* member of r is delivered to nobody
C13_NonMemberCodeChangeDropped ==
  (lastOp.kind = "code-change" /\ lastOp.sock \notin joined[lastOp.key]) =>
    out = EmptyBag

\* the last event was a join-room without roomId or an offer, answer or
\* ice-candidate without targetSocketId
MissingField ==
  /\ lastOp.kind \in {"join-room"} \cup DirectedKinds
  /\ lastOp.key = Undefined

\* the last event lacked its roomId, its target or its whole object
MalformedEvent ==
  /\ lastOp.kind \in EventKinds
  /\ (lastOp.key = Undefined \/ lastOp.payload = Undefined)

\* C14: a join-room without roomId, or an offer, answer or ice-candidate
\* without target, makes the relay send an error event to the sender, and
\* nothing to anybody else
C14_MalformedGetsError ==
  MissingField =>
    /\ \E d \in Sent : d.to = lastOp.sock /\ d.msg.ev = "error"
    /\ \A d \in Sent : d.to = lastOp.sock

\* C15: an event that lacks its roomId, its target or its object leaves the
\* directory as it was, delivers nothing to any other connection, and leaves
\* the relay running
C15_MalformedChangesNothing ==
  [][MalformedEvent' =>
       /\ rooms' = rooms
       /\ \A d \in BagToSet(out') : d.to = lastOp'.sock
       /\ \A c \in ConnIds : status'[c] # "down"]_vars

\* C16: an offer, answer or ice-candidate whose target is the id of a
\* connection that has disconnected or was never admitted reaches no
\* connection (the sender gets no error either), leaves the directory
\* unchanged, and no later event of another kind delivers it
C16_DeadTargetDropped ==
  [][/\ (/\ lastOp'.kind \in DirectedKinds
         /\ lastOp'.key \in ConnIds
         /\ status'[lastOp'.key] # "connected")
        => (out' = EmptyBag /\ rooms' = rooms)
     /\ lastOp'.kind \notin DirectedKinds
        => \A d \in BagToSet(out') : d.msg.ev \notin DirectedKinds]_vars

\* C17: the disconnect of a connection that is in no room leaves the
\* directory unchanged and delivers nothing
C17_DisconnectOutsideRooms ==
  [][(lastOp'.kind = "disconnect" /\ lastOp'.left = {})
       => (rooms' = rooms /\ out' = EmptyBag)]_vars

\* C17 witness: a connection that joined nothing has disconnected while
\* another connection is a member of a room
C17_Witness ==
  /\ lastOp.kind = "disconnect"
  /\ lastOp.left = {}
  /\ \E r \in RoomKeys : joined[r] # {}
  /\ out = EmptyBag

\* the rooms of the directory that list connection c
TrackedRoomsOf(c) == {r \in AllKeys : c \in TrackedIds(r)}

\* C18 (as claimed): a live connection is a member of at most one room
C18_AtMostOneRoom ==
  \A c \in ConnIds :
    status[c] = "connected" => Cardinality(TrackedRoomsOf(c)) <= 1

\* C18 (amended): a live connection is a member of every room it has sent
\* join-room for, and of no other
C18_MemberOfEveryRoomJoined ==
  \A c \in ConnIds :
    status[c] = "connected" =>
      TrackedRoomsOf(c) = {r \in AllKeys : c \in joined[r]}

\* C18 witness: a live connection is a member of two rooms
C18_Witness ==
  \E c \in ConnIds :
    status[c] = "connected" /\ Cardinality(TrackedRoomsOf(c)) = 2

C20_CleanupIdempotent ==
  \A c \in ConnIds :
    status[c] = "closed" =>
      /\ RoomsAfterDisconnect(rooms, c) = rooms
      /\ UserLeftEmits(rooms, adapter, c) = EmptyBag

\* C21: handlers run one at a time, so a join sees the room as it is: every
\* connection that was a member of the room when the join took effect is
\* sent the user-joined of the joiner (of two co-members, the earlier one
\* was notified of the later one), and the peer a user-joined announces is
\* a live connection that is a member once the join is done
C21_JoinAtomic ==
  [][lastOp'.kind = "join-room" =>
       /\ \A m \in joined[lastOp'.key] \ {lastOp'.sock} :
            \E d \in BagToSet(out') :
              /\ d.to = m
              /\ d.msg.ev = "user-joined"
              /\ d.msg.socketId = lastOp'.sock
       /\ \A d \in BagToSet(out') :
            /\ d.msg.socketId \in ConnIds
            /\ status'[d.msg.socketId] = "connected"
            /\ d.msg.socketId \in joined'[lastOp'.key]
            /\ status'[d.to] = "connected"]_vars

\* C21 witness: a join took effect after another connection had
\* disconnected, and a member that was in the room then was notified
C21_Witness ==
  /\ lastOp.kind = "join-room"
  /\ \E c \in ConnIds : status[c] = "closed"
  /\ joined[lastOp.key] \ {lastOp.sock} # {}
  /\ BagCardinality(out) >= 1

\* room r of this.rooms is the same before and after the step
SameRoom(r) ==
  /\ r \in DOMAIN rooms <=> r \in DOMAIN rooms'
  /\ r \in DOMAIN rooms => rooms'[r] = rooms[r]

\* C23: offer, answer, ice-candidate and code-change events leave the whole
\* directory unchanged, a join-room changes no room but the one it names, and
\* a disconnect changes no room but those that list the disconnecting
\* connection
C23_DirectoryFrame ==
  [][/\ lastOp'.kind \in DirectedKinds \cup {"code-change"} => rooms' = rooms
     /\ lastOp'.kind = "join-room" =>
          \A r \in AllKeys \ {lastOp'.key} : SameRoom(r)
     /\ lastOp'.kind = "disconnect" =>
          \A r \in AllKeys : lastOp'.sock \notin TrackedIds(r) => SameRoom(r)]_vars

\* C24: a room of the directory lists a connection at most once, however
\* many join-room events the connection sent for it
C24_OneEntryPerConnection ==
  \A r \in DOMAIN rooms :
    \A i, j \in 1..Len(rooms[r]) :
      rooms[r][i].socketId = rooms[r][j].socketId => i = j

\* C25: for every interview room, the sockets in the transport room used for
\* fan-out are exactly the sockets this.rooms lists under it
C25_TransportAgreesWithTracked ==
  \A r \in RoomNames :
    \A c \in ConnIds : c \in adapter[r] <=> c \in TrackedIds(r)

\* C26: the user-joined of a join of room r goes only to members of r, never
\* to the joiner; the user-left of a room goes only to members of that room
C26_PresenceRoomScoped ==
  /\ lastOp.kind = "join-room" =>
       \A d \in Sent : d.to \in joined[lastOp.key] /\ d.to # lastOp.sock
  /\ lastOp.kind = "disconnect" =>
       \A d \in Sent : d.to \in joined[d.via]

\* C27: every delivery of a relayed offer, answer, ice-candidate or
\* code-change carries the payload the sender sent, and the receivers are
\* the sockets of the named transport room other than the sender, whatever
\* the payload is
C27_PayloadTransparent ==
  lastOp.kind \in DirectedKinds \cup {"code-change"} =>
    /\ \A d \in Sent : d.msg.ev = lastOp.kind /\ d.msg.payload = lastOp.payload
    /\ {d.to : d \in Sent} = adapter[lastOp.key] \ {lastOp.sock}

\* C27 witness: an answer carrying the second payload has reached its target
\* with that payload
C27_Witness ==
  /\ lastOp.kind = "answer"
  /\ lastOp.payload = "p2"
  /\ lastOp.key \in ConnIds
  /\ \E d \in Sent : d.to = lastOp.key /\ d.msg.payload = "p2"

\* the kinds of the directed events t's listeners have taken from s, in the
\* order they took them
KindsGot(t, s) ==
  [i \in 1..Len(recvLog[t][s]) |-> recvLog[t][s][i].kind]

\* the client of t has taken an event of that kind sent by s
Got(t, s, kind) ==
  \E i \in 1..Len(recvLog[t][s]) : KindsGot(t, s)[i] = kind

\* the places in sentLog[s] of the events of kind and payload e addressed
\* to t
SentAt(s, t, e) ==
  {n \in 1..Len(sentLog[s]) :
     sentLog[s][n] = [kind |-> e.kind, target |-> t, payload |-> e.payload]}

JoinedAfter(a, b) ==
  /\ a # b
  /\ lastOp.kind = "join-room"
  /\ lastOp.sock = b
  /\ a \in joined[lastOp.key]
  /\ recvLog[b][a] = << >>

\* C28: when B joins a room A is a member of (and both stay connected), B
\* eventually receives A's offer and A eventually receives B's answer
C28_HandshakeCompletes ==
  JoinedAfter("A", "B") ~> (Got("B", "A", "offer") /\ Got("A", "B", "answer"))

\* C28 witness: B joined after A, has A's offer, and A has B's answer
C28_Witness ==
  /\ status["A"] = "connected"
  /\ status["B"] = "connected"
  /\ {"A", "B"} \subseteq joined["r1"]
  /\ KindsGot("B", "A") = <<"offer">>
  /\ KindsGot("A", "B") = <<"answer">>

\* the client of a has sent an offer addressed to b
Offered(a, b) ==
  \E n \in 1..Len(sentLog[a]) :
    sentLog[a][n].kind = "offer" /\ sentLog[a][n].target = b

\* C29: of two connections, at most one ever sends an offer to the other
C29_NoOfferCollision ==
  \A a, b \in ConnIds : ~(Offered(a, b) /\ Offered(b, a))

\* C30: once the relay has got the join of a mounted WebRTCComponent, the
\* component's socket is a member of the room it named (listed in this.rooms
\* and in the transport room), and every offer, answer and ice-candidate the
\* component emits reaches the relay's listener with a target to route it to
C30_FrontendEventsAccepted ==
  /\ lastOp.kind = "join" =>
       /\ lastOp.sock \in TrackedIds(lastOp.key)
       /\ lastOp.sock \in adapter[lastOp.key]
  /\ (lastOp.kind \in DirectedKinds /\ lastOp.sock \in Frontends) =>
       lastOp.key # Undefined

====
